---- MODULE Spec2Model ----
(***************************************************************************)
(* Model of the reservation poller of src/index.ts (the second program of  *)
(* the file, lines 169-586): the main loop, runCrawlingCycle, the probes   *)
(* started by checkReservation and the e-mail dedup cache.                 *)
(*                                                                         *)
(* Node runs everything on one thread.  An action of this model is the     *)
(* code one continuation executes between two awaits; an awaited browser,  *)
(* mail or timer operation completes in a later action and either returns  *)
(* or throws.                                                              *)
(***************************************************************************)
EXTENDS Integers, Sequences, FiniteSets, TLC

VARIABLES
    gSearchList,        \* index.ts:210  parsed G_SEARCH_LIST
    now,                \* Date.now(), in milliseconds
    emailSentHistory,   \* index.ts:239  Map url -> time of the last recorded send
    cycleNumber,        \* index.ts:573
    driverPc,           \* where the main loop / runCrawlingCycle is suspended
    attempt,            \* number of runCrawlingCycle calls made so far
    runNumber,          \* the cycleNumber argument of the latest call
    lastExit,           \* how the latest call ended: "none", "ok" or "error"
    searchTasks,        \* index.ts:525  the task list of the current call
    batchStart,         \* index.ts:548  the loop variable i
    cycleOk,            \* the try block of runCrawlingCycle ended without exception
    browser,            \* per call: "none", "open", "failed", "closed"
    probe,              \* per call and task: the checkReservation promise
    lastInvoke,         \* history: url -> time of the latest sendEmail call
    lastRecorded,       \* history: url -> time of the latest recordEmailSent call
    cr                  \* index.ts:341-494  the locals and the page of one
                        \* checkReservation call followed step by step

vars == <<gSearchList, now, emailSentHistory, cycleNumber, driverPc, attempt,
          runNumber, lastExit, searchTasks, batchStart, cycleOk, browser, probe,
          lastInvoke, lastRecorded, cr>>

----------------------------------------------------------------------------
(* Sizes.  The source runs 7 probes at a time over a 7-day window; the     *)
(* model keeps the structure with smaller numbers.                         *)

CONCURRENT_LIMIT == 2       \* index.ts:236 (7 in the source)
WeekLen == 2                \* index.ts:249 (7 in the source)
MaxAttempts == 2            \* runCrawlingCycle calls explored
MaxTicks == 3               \* the clock stops advancing after this many ticks

TickMs == 15 * 60 * 1000                \* granularity of the model clock
EMAIL_COOLDOWN_MS == 30 * 60 * 1000     \* index.ts:242
DayMs == 24 * 60 * 60 * 1000
SeoulOffsetMs == 9 * 60 * 60 * 1000

\* The values G_SEARCH_LIST is drawn from: empty, one target, the same
\* target twice (parseSearchList keeps duplicates), two targets.
TargetLists == { <<>>, <<"25">>, <<"25", "25">>, <<"25", "5">> }

Min(a, b) == IF a < b THEN a ELSE b

----------------------------------------------------------------------------
(* Task generation                                                         *)

\* index.ts:245-255.  A date is the ordinal of its day in Asia/Seoul.
getWeekDates(t) ==
    LET today == (t + SeoulOffsetMs) \div DayMs
    IN  [k \in 1..WeekLen |-> today + (k - 1)]

\* index.ts:532.  The url embeds idx once and the date twice.
TaskUrl(idx, date) == <<idx, date, date>>

\* index.ts:525-535: for each item, for each date, push a task.
GenerateTasks(list, dates) ==
    [n \in 1..(Len(list) * Len(dates)) |->
        LET item == list[((n - 1) \div Len(dates)) + 1]
            date == dates[((n - 1) % Len(dates)) + 1]
        IN  [idx |-> item, date |-> date, url |-> TaskUrl(item, date)]]

MaxTargets == CHOOSE n \in 0..8 : /\ \E l \in TargetLists : Len(l) = n
                                 /\ \A l \in TargetLists : Len(l) <= n
MaxTasks == MaxTargets * WeekLen
Attempts == 1..MaxAttempts
TaskIds == 1..MaxTasks

----------------------------------------------------------------------------
(* Dedup cache: a map is a function whose domain is its key set.           *)

\* index.ts:239: new Map()
EmptyMap == [u \in {} |-> 0]

\* A check that lets a mail through only after more than the cooldown.
canSendEmail_Strict(hist, url, t) ==
    IF url \notin DOMAIN hist \/ hist[url] = 0
    THEN TRUE
    ELSE t - hist[url] > EMAIL_COOLDOWN_MS

\* index.ts:258-268.  Map.get gives undefined for a missing key, and
\* !lastSent also holds for a timestamp 0.
canSendEmail(hist, url, t) ==
    IF url \notin DOMAIN hist \/ hist[url] = 0
    THEN TRUE
    ELSE t - hist[url] >= EMAIL_COOLDOWN_MS

\* index.ts:271-273
recordEmailSent(hist, url, t) ==
    [u \in DOMAIN hist \cup {url} |-> IF u = url THEN t ELSE hist[u]]

\* A cleanup that keeps an entry until it is more than one cooldown old.
KeysToDelete_Strict(hist, t) ==
    {u \in DOMAIN hist : t - hist[u] > EMAIL_COOLDOWN_MS}

\* A cleanup that empties the map.
KeysToDelete_All(hist, t) == DOMAIN hist

\* index.ts:278-284
KeysToDelete(hist, t) ==
    {u \in DOMAIN hist : t - hist[u] >= EMAIL_COOLDOWN_MS}

\* index.ts:276-293
cleanupOldEmailHistory(hist, t) ==
    [u \in DOMAIN hist \ KeysToDelete(hist, t) |-> hist[u]]

----------------------------------------------------------------------------
(* Probes                                                                  *)

\* What the page interaction of one probe (index.ts:341-494) comes to:
\* the four classifications the code logs, or an exception thrown inside
\* the try block.
Outcomes == {"Available", "Unavailable", "Inconclusive", "PageError", "Exception"}

\* The slots (idx, date) for which the site may answer the non-member click
\* with a redirect during the run; every other slot never redirects.
OpenSlots == { <<"25", 0>> }

Redirects(url) == <<url[1], url[2]>> \in OpenSlots

IdleProbe == [pc |-> "none", url |-> <<>>, page |-> "none", outcome |-> "none"]

InFlightPcs == {"newPage", "probing", "sending", "closing", "delay"}

InFlight(a, t) == probe[a][t].pc \in InFlightPcs

Settled(a, t) == probe[a][t].pc \in {"fulfilled", "rejected"}

\* index.ts:549: the task indexes (1-based) of the batch that starts at i.
Batch(tasks, i) == (i + 1)..Min(i + CONCURRENT_LIMIT, Len(tasks))

\* index.ts:341-364: the locals of checkReservation and what the model
\* remembers of its page, before the call has entered its try block.
\*   pc ............ the await the call is suspended at
\*   listening ..... page.on('dialog', ...) has been called (350)
\*   pageUrl ....... what page.url() returns
\*   dialog ........ the latest native dialog: "none", "dismissed", "pending"
\*   dialogs ....... native dialogs opened so far
\*   attempt ....... the loop variable of the current retry loop
\*   searches, reloads, settles, nonMemberSearches, detail, outcome,
\*   dialogInObserve, mailName ... history of the call
IdleCall ==
    [pc |-> "idle", listening |-> FALSE, alertAppeared |-> FALSE,
     pageUrl |-> "blank", currentUrl |-> "none",
     dialog |-> "none", dialogs |-> 0,
     attempt |-> 0, reserveButtonFound |-> FALSE, bookingName |-> <<>>,
     nonMemberButtonClicked |-> FALSE,
     searches |-> 0, reloads |-> 0, settles |-> 0, nonMemberSearches |-> 0,
     detail |-> [found |-> FALSE, text |-> <<>>],
     outcome |-> "none", dialogInObserve |-> FALSE, mailName |-> <<"none">>]

Init ==
    /\ cr = IdleCall
    /\ gSearchList \in TargetLists
    /\ now = TickMs
    /\ emailSentHistory = EmptyMap
    /\ cycleNumber = 1
    /\ driverPc = "loop"
    /\ attempt = 0
    /\ runNumber = 0
    /\ lastExit = "none"
    /\ searchTasks = <<>>
    /\ batchStart = 0
    /\ cycleOk = FALSE
    /\ browser = [a \in Attempts |-> "none"]
    /\ probe = [a \in Attempts |-> [t \in TaskIds |-> IdleProbe]]
    /\ lastInvoke = EmptyMap
    /\ lastRecorded = EmptyMap

----------------------------------------------------------------------------
(* The main loop and runCrawlingCycle                                      *)

driverVars == <<cycleNumber, driverPc, attempt, runNumber, lastExit,
                searchTasks, batchStart, cycleOk, browser>>

histVars == <<lastInvoke, lastRecorded>>

\* index.ts:550-554: batch.map calls checkReservation for every task of the
\* batch; each call runs up to its first await, browser.newPage().
StartBatch(a, tasks, i) ==
    probe' = [probe EXCEPT ![a] =
        [t \in TaskIds |->
            IF t \in Batch(tasks, i)
            THEN [pc |-> "newPage", url |-> tasks[t].url,
                  page |-> "none", outcome |-> "none"]
            ELSE probe[a][t]]]

\* index.ts:577-580 and 506-544: an iteration of while (true) calls
\* runCrawlingCycle(cycleNumber), which cleans the cache, builds the task
\* list and awaits puppeteer.launch.  The promises of earlier calls that
\* have settled are unreachable by then and are dropped from the state.
\* limit bounds the number of calls a specification explores.
CycleStartUpTo(limit) ==
    /\ driverPc = "loop"
    /\ attempt < limit
    /\ attempt' = attempt + 1
    /\ runNumber' = cycleNumber
    /\ emailSentHistory' = cleanupOldEmailHistory(emailSentHistory, now)
    /\ searchTasks' = GenerateTasks(gSearchList, getWeekDates(now))
    /\ batchStart' = 0
    /\ cycleOk' = FALSE
    /\ driverPc' = "launch"
    /\ probe' = [a \in Attempts |-> [t \in TaskIds |->
                    IF InFlight(a, t) THEN probe[a][t] ELSE IdleProbe]]
    /\ UNCHANGED <<cr, gSearchList, now, cycleNumber, lastExit, browser, histVars>>

CycleStart == CycleStartUpTo(MaxAttempts)

\* A specification of a single runCrawlingCycle call.
FirstCycleStart == CycleStartUpTo(1)

\* index.ts:542-548: launch returned; the for loop starts the first batch,
\* or, with no task, falls through to finally and awaits browser.close().
LaunchOk ==
    /\ driverPc = "launch"
    /\ browser' = [browser EXCEPT ![attempt] = "open"]
    /\ IF Len(searchTasks) > 0
       THEN /\ StartBatch(attempt, searchTasks, 0)
            /\ driverPc' = "awaitAll"
            /\ UNCHANGED cycleOk
       ELSE /\ driverPc' = "browserClose"
            /\ cycleOk' = TRUE
            /\ UNCHANGED probe
    /\ UNCHANGED <<cr, gSearchList, now, emailSentHistory, cycleNumber, attempt,
                   runNumber, lastExit, searchTasks, batchStart, histVars>>

\* A main loop without the try/catch of index.ts:578-585.
CatchCycleError_Exit ==
    /\ lastExit' = "error"
    /\ driverPc' = "exited"
    /\ UNCHANGED cycleNumber

\* A catch block that also advances the counter.
CatchCycleError_Increment ==
    /\ lastExit' = "error"
    /\ driverPc' = "loop"
    /\ cycleNumber' = cycleNumber + 1

\* index.ts:583-585: the exception of a cycle is caught and logged by the
\* main loop, which goes round again; cycleNumber += 1 (582) was skipped.
CatchCycleError ==
    /\ lastExit' = "error"
    /\ driverPc' = "loop"
    /\ UNCHANGED cycleNumber

\* index.ts:542: launch threw, outside the try of runCrawlingCycle.
LaunchFail ==
    /\ driverPc = "launch"
    /\ browser' = [browser EXCEPT ![attempt] = "failed"]
    /\ CatchCycleError
    /\ UNCHANGED <<cr, gSearchList, now, emailSentHistory, attempt, runNumber,
                   searchTasks, batchStart, cycleOk, probe, histVars>>

\* An await that resumes once any one promise of the batch has fulfilled.
BatchFulfilled_Any ==
    \E t \in Batch(searchTasks, batchStart) : probe[attempt][t].pc = "fulfilled"

\* index.ts:557: Promise.all fulfils once every promise of the batch has.
BatchFulfilled ==
    \A t \in Batch(searchTasks, batchStart) : probe[attempt][t].pc = "fulfilled"

\* index.ts:557: Promise.all rejects as soon as one promise of the batch does.
BatchRejected ==
    \E t \in Batch(searchTasks, batchStart) : probe[attempt][t].pc = "rejected"

\* index.ts:548-562: the await of Promise.all returned; next batch, or the
\* end of the loop, the log line and finally.
AwaitAllOk ==
    /\ driverPc = "awaitAll"
    /\ BatchFulfilled
    /\ batchStart' = batchStart + CONCURRENT_LIMIT
    /\ IF batchStart' < Len(searchTasks)
       THEN /\ StartBatch(attempt, searchTasks, batchStart')
            /\ driverPc' = "awaitAll"
            /\ UNCHANGED cycleOk
       ELSE /\ driverPc' = "browserClose"
            /\ cycleOk' = TRUE
            /\ UNCHANGED probe
    /\ UNCHANGED <<cr, gSearchList, now, emailSentHistory, cycleNumber, attempt,
                   runNumber, lastExit, searchTasks, browser, histVars>>

\* index.ts:557-562: the await of Promise.all threw; finally awaits
\* browser.close() while the other probes of the batch are still running.
AwaitAllReject ==
    /\ driverPc = "awaitAll"
    /\ BatchRejected
    /\ driverPc' = "browserClose"
    /\ cycleOk' = FALSE
    /\ UNCHANGED <<cr, gSearchList, now, emailSentHistory, cycleNumber, attempt,
                   runNumber, lastExit, searchTasks, batchStart, browser, probe,
                   histVars>>

\* index.ts:581-582: the cycle returned normally.
CycleReturned ==
    /\ lastExit' = "ok"
    /\ cycleNumber' = cycleNumber + 1
    /\ driverPc' = "loop"

\* index.ts:562 then 581-585: browser.close() returned: the session and all
\* of its pages are gone.  The cycle then returns, or rethrows the
\* exception of the try block to the main loop.
BrowserClose ==
    /\ driverPc = "browserClose"
    /\ browser' = [browser EXCEPT ![attempt] = "closed"]
    /\ probe' = [probe EXCEPT ![attempt] =
            [t \in TaskIds |->
                IF probe[attempt][t].page = "open"
                THEN [probe[attempt][t] EXCEPT !.page = "closed"]
                ELSE probe[attempt][t]]]
    /\ IF cycleOk THEN CycleReturned ELSE CatchCycleError
    /\ UNCHANGED <<cr, gSearchList, now, emailSentHistory, attempt, runNumber,
                   searchTasks, batchStart, cycleOk, histVars>>

----------------------------------------------------------------------------
(* checkReservation                                                        *)

SetProbe(a, t, r) == probe' = [probe EXCEPT ![a][t] = r]

\* index.ts:338-345: newPage returned a page; the probe enters its try
\* block and awaits the page interaction.
NewPageOk(a, t) ==
    /\ probe[a][t].pc = "newPage"
    /\ browser[a] = "open"
    /\ SetProbe(a, t, [probe[a][t] EXCEPT !.pc = "probing", !.page = "open"])
    /\ UNCHANGED <<cr, gSearchList, now, emailSentHistory, driverVars, histVars>>

\* index.ts:338: newPage threw; the call is outside the try block, so the
\* promise of checkReservation rejects.
NewPageFail(a, t) ==
    /\ probe[a][t].pc = "newPage"
    /\ SetProbe(a, t, [probe[a][t] EXCEPT !.pc = "rejected"])
    /\ UNCHANGED <<cr, gSearchList, now, emailSentHistory, driverVars, histVars>>

\* A probe that mails on every redirect, without asking the cache.
NotifyIfAllowed_Always(a, t) ==
    /\ SetProbe(a, t, [probe[a][t] EXCEPT !.pc = "sending",
                                         !.outcome = "Available"])
    /\ lastInvoke' = recordEmailSent(lastInvoke, probe[a][t].url, now)

\* index.ts:465-488: on a redirect the probe asks canSendEmail and, if it
\* may, calls sendEmail and awaits it; if not it logs and falls to finally.
NotifyIfAllowed(a, t) ==
    IF canSendEmail(emailSentHistory, probe[a][t].url, now)
    THEN /\ SetProbe(a, t, [probe[a][t] EXCEPT !.pc = "sending",
                                              !.outcome = "Available"])
         /\ lastInvoke' = recordEmailSent(lastInvoke, probe[a][t].url, now)
    ELSE /\ SetProbe(a, t, [probe[a][t] EXCEPT !.pc = "closing",
                                              !.outcome = "Available"])
         /\ UNCHANGED lastInvoke

\* index.ts:345-499: the page interaction came to outcome o.  Everything
\* but a redirect only logs, and an exception is caught at 495; the probe
\* then enters finally and awaits page.close().
ProbeOutcome(a, t, o) ==
    /\ probe[a][t].pc = "probing"
    /\ o = "Available" => Redirects(probe[a][t].url)
    /\ IF o = "Available"
       THEN NotifyIfAllowed(a, t)
       ELSE /\ SetProbe(a, t, [probe[a][t] EXCEPT !.pc = "closing", !.outcome = o])
            /\ UNCHANGED lastInvoke
    /\ UNCHANGED <<gSearchList, now, emailSentHistory, driverVars, lastRecorded>>

\* The same step of a probe whose page interaction is not followed.
ProbeResolve(a, t, o) ==
    /\ ProbeOutcome(a, t, o)
    /\ UNCHANGED cr

\* index.ts:479-498: sendEmail returned: record the send, then finally.
SendOk(a, t) ==
    /\ probe[a][t].pc = "sending"
    /\ emailSentHistory' = recordEmailSent(emailSentHistory, probe[a][t].url, now)
    /\ lastRecorded' = recordEmailSent(lastRecorded, probe[a][t].url, now)
    /\ SetProbe(a, t, [probe[a][t] EXCEPT !.pc = "closing"])
    /\ UNCHANGED <<cr, gSearchList, now, driverVars, lastInvoke>>

\* A probe that records the send although sendEmail threw.
SendFail_Records(a, t) ==
    /\ probe[a][t].pc = "sending"
    /\ emailSentHistory' = recordEmailSent(emailSentHistory, probe[a][t].url, now)
    /\ SetProbe(a, t, [probe[a][t] EXCEPT !.pc = "closing", !.outcome = "Exception"])
    /\ UNCHANGED <<cr, gSearchList, now, driverVars, histVars>>

\* index.ts:473, 495-498: sendEmail threw: caught, nothing recorded.
SendFail(a, t) ==
    /\ probe[a][t].pc = "sending"
    /\ SetProbe(a, t, [probe[a][t] EXCEPT !.pc = "closing", !.outcome = "Exception"])
    /\ UNCHANGED <<cr, gSearchList, now, emailSentHistory, driverVars, histVars>>

\* A probe that goes on to its trailing delay with the page left open.
PageCloseOk_Leak(a, t) ==
    /\ probe[a][t].pc = "closing"
    /\ probe[a][t].page = "open"
    /\ SetProbe(a, t, [probe[a][t] EXCEPT !.pc = "delay", !.outcome = "none"])
    /\ UNCHANGED <<cr, gSearchList, now, emailSentHistory, driverVars, histVars>>

\* index.ts:498-502: page.close() returned; the probe awaits delay(1000).
PageCloseOk(a, t) ==
    /\ probe[a][t].pc = "closing"
    /\ probe[a][t].page = "open"
    /\ SetProbe(a, t, [probe[a][t] EXCEPT !.pc = "delay", !.page = "closed",
                                         !.outcome = "none"])
    /\ UNCHANGED <<cr, gSearchList, now, emailSentHistory, driverVars, histVars>>

\* index.ts:498: page.close() threw inside finally, so the promise of
\* checkReservation rejects.  Puppeteer rejects close() when the page's
\* target or its connection is already gone (a crashed page, a closed
\* session): the page is not open afterwards.
PageCloseFail(a, t) ==
    /\ probe[a][t].pc = "closing"
    /\ SetProbe(a, t, [probe[a][t] EXCEPT !.pc = "rejected", !.page = "closed",
                                         !.outcome = "none"])
    /\ UNCHANGED <<cr, gSearchList, now, emailSentHistory, driverVars, histVars>>

\* index.ts:502-503: the trailing delay elapsed; the promise fulfils.
PostDelay(a, t) ==
    /\ probe[a][t].pc = "delay"
    /\ SetProbe(a, t, [probe[a][t] EXCEPT !.pc = "fulfilled"])
    /\ UNCHANGED <<cr, gSearchList, now, emailSentHistory, driverVars, histVars>>

----------------------------------------------------------------------------
(* The page interaction of checkReservation (index.ts:341-494), followed   *)
(* await by await for the first probe of a cycle.  The page answers as a    *)
(* scripted browser would: every awaited page operation returns or throws, *)
(* a search finds its element or not, and the page may open a native       *)
(* dialog or change its URL while the call is suspended.                   *)

maxReserveButtonAttempts == 5       \* index.ts:360
maxNonMemberButtonAttempts == 5     \* index.ts:416
MaxDialogs == 2                     \* native dialogs a page opens in one probe

\* What document.querySelector('.booking_content_detail > div') can give:
\* no element, an element without text, an element with padded text.
DetailElements ==
    { [found |-> FALSE, text |-> <<>>],
      [found |-> TRUE, text |-> <<>>],
      [found |-> TRUE, text |-> <<" ">>],
      [found |-> TRUE, text |-> <<" ", "R", " ">>] }

RECURSIVE TrimStart(_)
TrimStart(s) == IF s # <<>> /\ Head(s) = " " THEN TrimStart(Tail(s)) ELSE s

RECURSIVE TrimEnd(_)
TrimEnd(s) ==
    IF s # <<>> /\ s[Len(s)] = " " THEN TrimEnd(SubSeq(s, 1, Len(s) - 1)) ELSE s

\* String.prototype.trim
Trim(s) == TrimEnd(TrimStart(s))

\* index.ts:378-381: detailElement ? detailElement.textContent?.trim() || '' : ''
DetailText(el) == IF el.found THEN Trim(el.text) ELSE <<>>

\* A comparison that takes any URL for a redirect.
Redirected_Always(currentUrl, newUrl) == TRUE

\* index.ts:463: redirected = currentUrl !== newUrl
Redirected(currentUrl, newUrl) == currentUrl # newUrl

\* The awaits of the try block that are page operations (the others are
\* calls of delay, which cannot throw).
PageOpPcs == {"goto", "setViewport", "findReserve", "clickReserve",
              "readDetail", "reload", "findNonMember"}

\* A native dialog nobody has answered blocks the page: its scripts and
\* every operation that evaluates in it wait until the operation times out.
Blocked == cr.dialog = "pending"

InTry == probe[1][1].pc = "probing" /\ cr.pc \notin {"idle", "done"}

\* A step inside the try block: only the call's locals and page change.
Step(r) ==
    /\ cr' = r
    /\ UNCHANGED <<gSearchList, now, emailSentHistory, driverVars, probe, histVars>>

\* The call leaves the try block with outcome o and enters finally.
Finally(o, r) ==
    /\ cr' = [r EXCEPT !.pc = "done", !.outcome = o]
    /\ ProbeOutcome(1, 1, o)

\* index.ts:345-346: goto returned; setViewport is awaited.
GotoOk ==
    /\ InTry /\ cr.pc = "goto" /\ ~Blocked
    /\ Step([cr EXCEPT !.pc = "setViewport", !.pageUrl = "origin"])

\* index.ts:346-365: setViewport returned; the dialog listener is registered,
\* the URL is recorded and the first search for the reserve button starts.
SetViewportOk ==
    /\ InTry /\ cr.pc = "setViewport"
    /\ Step([cr EXCEPT !.pc = "findReserve", !.listening = TRUE,
                       !.alertAppeared = FALSE, !.currentUrl = cr.pageUrl,
                       !.attempt = 1])

\* index.ts:495-497: an awaited page operation threw; caught and logged.
PageOpThrows ==
    /\ InTry /\ cr.pc \in PageOpPcs
    /\ Finally("Exception", cr)

\* index.ts:365-374: the search found an anchor with the reserve text; the
\* button is clicked.
ReserveFound ==
    /\ InTry /\ cr.pc = "findReserve" /\ ~Blocked
    /\ Step([cr EXCEPT !.pc = "clickReserve", !.reserveButtonFound = TRUE,
                       !.searches = cr.searches + 1])

\* A retry loop without its ceiling.
ReserveMiss_Unbounded ==
    /\ InTry /\ cr.pc = "findReserve" /\ ~Blocked
    /\ Step([cr EXCEPT !.pc = "reload", !.searches = cr.searches + 1])

\* index.ts:365-410: the search found nothing: reload and wait, or after the
\* last attempt log the final failure and await page.content().
ReserveMiss ==
    /\ InTry /\ cr.pc = "findReserve" /\ ~Blocked
    /\ IF cr.attempt < maxReserveButtonAttempts
       THEN Step([cr EXCEPT !.pc = "reload", !.searches = cr.searches + 1])
       ELSE Step([cr EXCEPT !.pc = "content", !.searches = cr.searches + 1,
                            !.outcome = "PageError"])

\* index.ts:396-397: reload returned; delay(500) is awaited.
ReloadOk ==
    /\ InTry /\ cr.pc = "reload" /\ ~Blocked
    /\ Step([cr EXCEPT !.pc = "reloadDelay", !.reloads = cr.reloads + 1])

\* index.ts:397, 364-365: the delay elapsed; next attempt.
ReloadDelay ==
    /\ InTry /\ cr.pc = "reloadDelay"
    /\ Step([cr EXCEPT !.pc = "findReserve", !.settles = cr.settles + 1,
                       !.attempt = cr.attempt + 1])

\* index.ts:405-410, 495-498: page.content() returned and the markup is
\* logged, or it threw and the exception is logged; then finally.
ContentSettled ==
    /\ InTry /\ cr.pc = "content"
    /\ Finally("PageError", cr)

\* index.ts:374-378: the click returned; the detail text is read.
ClickReserveOk ==
    /\ InTry /\ cr.pc = "clickReserve" /\ ~Blocked
    /\ Step([cr EXCEPT !.pc = "readDetail"])

\* index.ts:378-413: the detail text is kept as bookingName; both loops are
\* left and delay(500) is awaited.
ReadDetail(el) ==
    /\ InTry /\ cr.pc = "readDetail" /\ ~Blocked
    /\ Step([cr EXCEPT !.pc = "modalDelay", !.detail = el,
                       !.bookingName = DetailText(el)])

\* index.ts:413-420: the delay elapsed; first search for the non-member button.
ModalDelay ==
    /\ InTry /\ cr.pc = "modalDelay"
    /\ Step([cr EXCEPT !.pc = "findNonMember", !.attempt = 1])

\* index.ts:420-452: the button was found and clicked; delay(1000) is awaited.
NonMemberClicked ==
    /\ InTry /\ cr.pc = "findNonMember" /\ ~Blocked
    /\ Step([cr EXCEPT !.pc = "settle1", !.nonMemberButtonClicked = TRUE,
                       !.nonMemberSearches = cr.nonMemberSearches + 1])

\* index.ts:420-449: the button was not found: wait and retry, or after the
\* last attempt log the final failure and leave.
NonMemberMiss ==
    /\ InTry /\ cr.pc = "findNonMember" /\ ~Blocked
    /\ IF cr.attempt < maxNonMemberButtonAttempts
       THEN Step([cr EXCEPT !.pc = "nonMemberDelay",
                            !.nonMemberSearches = cr.nonMemberSearches + 1])
       ELSE Finally("Inconclusive",
                    [cr EXCEPT !.nonMemberSearches = cr.nonMemberSearches + 1])

\* index.ts:444, 419-420: the delay elapsed; next attempt.
NonMemberDelay ==
    /\ InTry /\ cr.pc = "nonMemberDelay"
    /\ Step([cr EXCEPT !.pc = "findNonMember", !.attempt = cr.attempt + 1])

\* index.ts:452-459: the first delay elapsed: with alertAppeared set the slot
\* is logged as not bookable, otherwise the second delay(1000) is awaited.
Settle1 ==
    /\ InTry /\ cr.pc = "settle1"
    /\ IF cr.alertAppeared
       THEN Finally("Unavailable", cr)
       ELSE Step([cr EXCEPT !.pc = "settle2"])

\* index.ts:459-491: the second delay elapsed: the URL is compared with the
\* recorded one; a redirect goes to the mail path with
\* name = formattedDate / bookingName.
Settle2 ==
    /\ InTry /\ cr.pc = "settle2"
    /\ IF Redirected(cr.currentUrl, cr.pageUrl)
       THEN Finally("Available",
                    [cr EXCEPT !.mailName =
                        IF canSendEmail(emailSentHistory, probe[1][1].url, now)
                        THEN cr.bookingName ELSE <<"none">>])
       ELSE Finally("Inconclusive", cr)

\* index.ts:350-354: the page opens a native dialog.  A registered listener
\* sets alertAppeared and dismisses it; before page.on was called nobody
\* answers it.
DialogOpens ==
    /\ InTry /\ ~Blocked
    /\ cr.dialogs < MaxDialogs
    /\ IF cr.listening
       THEN Step([cr EXCEPT !.dialogs = cr.dialogs + 1, !.dialog = "dismissed",
                            !.alertAppeared = TRUE,
                            !.dialogInObserve = cr.dialogInObserve
                                \/ cr.pc \in {"settle1", "settle2"}])
       ELSE Step([cr EXCEPT !.dialogs = cr.dialogs + 1, !.dialog = "pending"])

\* The page goes to another URL (the booking form) after currentUrl was
\* recorded.
Navigate ==
    /\ InTry /\ ~Blocked
    /\ cr.listening /\ cr.pageUrl = "origin"
    /\ Step([cr EXCEPT !.pageUrl = "booking"])

PageSteps ==
    \/ GotoOk
    \/ SetViewportOk
    \/ PageOpThrows
    \/ ReserveFound
    \/ ReserveMiss
    \/ ReloadOk
    \/ ReloadDelay
    \/ ContentSettled
    \/ ClickReserveOk
    \/ \E el \in DetailElements : ReadDetail(el)
    \/ ModalDelay
    \/ NonMemberClicked
    \/ NonMemberMiss
    \/ NonMemberDelay
    \/ Settle1
    \/ Settle2
    \/ DialogOpens
    \/ Navigate

\* Time passes.
Tick ==
    /\ now < MaxTicks * TickMs
    /\ now' = now + TickMs
    /\ UNCHANGED <<cr, gSearchList, emailSentHistory, driverVars, probe, histVars>>

ProbeStep(a, t) ==
    \/ NewPageOk(a, t)
    \/ NewPageFail(a, t)
    \/ \E o \in Outcomes : ProbeResolve(a, t, o)
    \/ SendOk(a, t)
    \/ SendFail(a, t)
    \/ PageCloseOk(a, t)
    \/ PageCloseFail(a, t)
    \/ PostDelay(a, t)

CycleSteps ==
    \/ LaunchOk
    \/ LaunchFail
    \/ AwaitAllOk
    \/ AwaitAllReject
    \/ BrowserClose
    \/ \E a \in Attempts, t \in TaskIds : ProbeStep(a, t)

\* The process: the main loop for MaxAttempts calls of runCrawlingCycle.
Next ==
    \/ CycleStart
    \/ CycleSteps
    \/ Tick

Spec == Init /\ [][Next]_vars

\* One call of runCrawlingCycle, from the loop top to its return or throw.
CycleNext ==
    \/ FirstCycleStart
    \/ CycleSteps
    \/ Tick

CycleSpec == Init /\ [][CycleNext]_vars

\* The main loop alone: short target lists and a clock that stands still.
\* Node's event loop runs every continuation that is ready, and every
\* awaited operation returns or throws: weak fairness of the steps.
ShortLists == {l \in TargetLists : Len(l) <= 1}

LoopInit == Init /\ gSearchList \in ShortLists

LoopNext ==
    \/ CycleStart
    \/ CycleSteps

LoopSpec == LoopInit /\ [][LoopNext]_vars /\ WF_vars(LoopNext)

----------------------------------------------------------------------------
(* The dedup cache driven through its three operations in any order.       *)

CacheKeys == {TaskUrl("25", d) : d \in 0..(WeekLen - 1)}

\* index.ts:271-273 called for url u.
CacheRecord(u) ==
    /\ emailSentHistory' = recordEmailSent(emailSentHistory, u, now)
    /\ lastRecorded' = recordEmailSent(lastRecorded, u, now)
    /\ UNCHANGED <<cr, gSearchList, now, driverVars, probe, lastInvoke>>

\* index.ts:276-293 called.
CacheCleanup ==
    /\ emailSentHistory' = cleanupOldEmailHistory(emailSentHistory, now)
    /\ UNCHANGED <<cr, gSearchList, now, driverVars, probe, histVars>>

CacheNext ==
    \/ \E u \in CacheKeys : CacheRecord(u)
    \/ CacheCleanup
    \/ Tick

CacheSpec == Init /\ [][CacheNext]_vars

----------------------------------------------------------------------------
(* One checkReservation call from the entry of its try block to the        *)
(* settling of its promise.  The state it starts in is the one the first   *)
(* probe of a cycle over the list "25" is in when newPage has returned.    *)

ProbeInit ==
    /\ cr = [IdleCall EXCEPT !.pc = "goto"]
    /\ gSearchList = <<"25">>
    /\ now = TickMs
    /\ emailSentHistory = EmptyMap
    /\ cycleNumber = 1
    /\ driverPc = "awaitAll"
    /\ attempt = 1
    /\ runNumber = 1
    /\ lastExit = "none"
    /\ searchTasks = GenerateTasks(<<"25">>, getWeekDates(TickMs))
    /\ batchStart = 0
    /\ cycleOk = FALSE
    /\ browser = [a \in Attempts |-> IF a = 1 THEN "open" ELSE "none"]
    /\ probe = [a \in Attempts |-> [t \in TaskIds |->
                 IF a = 1 /\ t \in Batch(searchTasks, 0)
                 THEN [pc |-> IF t = 1 THEN "probing" ELSE "newPage",
                       url |-> searchTasks[t].url,
                       page |-> IF t = 1 THEN "open" ELSE "none",
                       outcome |-> "none"]
                 ELSE IdleProbe]]
    /\ lastInvoke = EmptyMap
    /\ lastRecorded = EmptyMap

ProbeNext ==
    \/ PageSteps
    \/ SendOk(1, 1)
    \/ SendFail(1, 1)
    \/ PageCloseOk(1, 1)
    \/ PageCloseFail(1, 1)
    \/ PostDelay(1, 1)

\* Every awaited operation returns or throws and every timer fires.
ProbeSpec == ProbeInit /\ [][ProbeNext]_vars /\ WF_vars(ProbeNext)

----------------------------------------------------------------------------
(* Claims                                                                  *)

AllProbes == Attempts \X TaskIds

\* The step in which probe <<a, t>> calls sendEmail.
Invoked(a, t) == probe[a][t].pc # "sending" /\ probe'[a][t].pc = "sending"

Age(hist, u) == now - hist[u]

\* C1: two sendEmail calls for the same url are never less than the
\* cooldown apart, whatever the interleaving of the probes.
C1_OncePerCooldown ==
    [][\A x \in AllProbes :
          LET u == probe[x[1]][x[2]].url
          IN  Invoked(x[1], x[2]) =>
                 (u \notin DOMAIN lastInvoke \/ Age(lastInvoke, u) >= EMAIL_COOLDOWN_MS)
      ]_vars

ChunkOf(t) == (t - 1) \div CONCURRENT_LIMIT

\* C2: within a cycle, once a task of a later batch has been started, every
\* task of every earlier batch has fulfilled (its retries, its page close
\* and its trailing delay are over).
C2_BatchBarrier ==
    \A t1, t2 \in TaskIds :
        (attempt > 0 /\ ChunkOf(t1) < ChunkOf(t2) /\ probe[attempt][t2].pc # "none")
            => probe[attempt][t1].pc = "fulfilled"

C2_SecondBatchStarted ==
    /\ attempt > 0
    /\ \E t \in TaskIds : ChunkOf(t) = 1 /\ probe[attempt][t].pc = "probing"
    /\ \A t \in TaskIds : ChunkOf(t) = 0 => probe[attempt][t].pc = "fulfilled"

InFlightCount == Cardinality({x \in AllProbes : InFlight(x[1], x[2])})

\* C3: at most CONCURRENT_LIMIT probes are in flight in any reachable state.
C3_AtMostKInFlight == InFlightCount <= CONCURRENT_LIMIT

\* C4: no failure of a probe leaves its task: the promise of checkReservation
\* never rejects, so Promise.all never throws into the cycle.
C4_FailuresContained ==
    /\ \A x \in AllProbes : probe[x[1]][x[2]].pc # "rejected"
    /\ driverPc = "browserClose" => cycleOk

C6_NextAttemptBegins ==
    \A n \in 0..(MaxAttempts - 1) : (attempt = n) ~> (attempt = n + 1)

C6_AttemptAfterFailure ==
    attempt >= 2 /\ lastExit = "error" /\ driverPc = "launch"

\* The step in which the main loop calls runCrawlingCycle again.
NextCall == attempt >= 1 /\ attempt' = attempt + 1

\* C7 as stated: the call after cycle #n carries number n+1, whether #n
\* failed or not.
C7_NextNumberAlways == [][NextCall => runNumber' = runNumber + 1]_vars

\* C7 amended: the call after a failed cycle #n carries number n again; only
\* a cycle that returned normally is followed by number n+1.
C7_SameNumberAfterFailure ==
    [][NextCall => runNumber' = IF lastExit = "ok" THEN runNumber + 1
                                                   ELSE runNumber]_vars

C7_RetryCarriesSameNumber ==
    attempt >= 2 /\ lastExit = "error" /\ driverPc = "launch" /\ runNumber = 1

\* C8: canSendEmail(k) is true when k was never recorded, false from the
\* most recent recordEmailSent(k) until the cooldown has elapsed, and true
\* from then on, whatever cleanups happened in between.
C8_CanSend ==
    \A u \in CacheKeys :
        canSendEmail(emailSentHistory, u, now)
            <=> (u \notin DOMAIN lastRecorded
                    \/ Age(lastRecorded, u) >= EMAIL_COOLDOWN_MS)

C8_TrueAgainAtCooldown ==
    \E u \in CacheKeys :
        /\ u \in DOMAIN emailSentHistory
        /\ Age(emailSentHistory, u) = EMAIL_COOLDOWN_MS
        /\ canSendEmail(emailSentHistory, u, now)

CleanedNow == cleanupOldEmailHistory(emailSentHistory, now)

CleanupKeeps(stale) ==
    /\ DOMAIN CleanedNow = {u \in DOMAIN emailSentHistory : ~stale[u]}
    /\ \A u \in DOMAIN CleanedNow : CleanedNow[u] = emailSentHistory[u]
    /\ cleanupOldEmailHistory(CleanedNow, now) = CleanedNow
    /\ (\A u \in DOMAIN emailSentHistory : ~stale[u]) => CleanedNow = emailSentHistory

\* C9 as stated: cleanup removes exactly the entries older than the
\* cooldown, keeps the others as they are, and is idempotent.
C9_RemovesOlderThanCooldown ==
    CleanupKeeps([u \in DOMAIN emailSentHistory |->
                    Age(emailSentHistory, u) > EMAIL_COOLDOWN_MS])

\* C9 amended: cleanup removes exactly the entries whose age is at least the
\* cooldown (an entry exactly one cooldown old goes too), keeps the others
\* as they are, and is idempotent.
C9_RemovesAtLeastCooldown ==
    CleanupKeeps([u \in DOMAIN emailSentHistory |->
                    Age(emailSentHistory, u) >= EMAIL_COOLDOWN_MS])

C9_StaleGoneFreshKept ==
    \E u, v \in CacheKeys :
        /\ u \in DOMAIN lastRecorded /\ u \notin DOMAIN emailSentHistory
        /\ Age(lastRecorded, u) = EMAIL_COOLDOWN_MS
        /\ v \in DOMAIN emailSentHistory
        /\ Age(emailSentHistory, v) < EMAIL_COOLDOWN_MS

\* C10: a probe that resolves Available calls sendEmail exactly when
\* canSendEmail(task.url) holds at that moment; no other probe step calls
\* it; and a send that returned is recorded under task.url at once.
C10_NotifyIffCanSend ==
    [][\A x \in AllProbes :
          LET p == probe[x[1]][x[2]]
              q == probe'[x[1]][x[2]]
          IN  /\ (p.pc = "probing" /\ q.pc # "probing" /\ q.outcome = "Available")
                    => (q.pc = "sending"
                            <=> canSendEmail(emailSentHistory, p.url, now))
              /\ Invoked(x[1], x[2])
                    => (p.pc = "probing" /\ q.outcome = "Available")
              /\ (p.pc = "sending" /\ q.pc = "closing" /\ q.outcome = "Available")
                    => (p.url \in DOMAIN emailSentHistory'
                            /\ emailSentHistory'[p.url] = now)
      ]_vars

C10_NotifiedAgainAfterCooldown ==
    \E x \in AllProbes :
        LET p == probe[x[1]][x[2]]
        IN  /\ p.pc = "sending"
            /\ p.url \in DOMAIN lastRecorded
            /\ Age(lastRecorded, p.url) >= EMAIL_COOLDOWN_MS

\* C11: a native dialog that opened during the observe-result step (after the
\* non-member click) makes the outcome Unavailable and no mail is sent,
\* whether or not the URL changed as well.
C11_DialogWins ==
    (cr.pc = "done" /\ cr.dialogInObserve)
        => (cr.outcome = "Unavailable" /\ probe[1][1].url \notin DOMAIN lastInvoke)

\* C12: with alertAppeared unset after both delays, the comparison of the
\* page URL with the URL recorded right after navigation decides: changed
\* gives Available with the trimmed detail text ('' without an element) as
\* bookingName, also in the mail; unchanged gives Inconclusive and no mail.
C12_UrlDecides ==
    [][(cr.pc = "settle2" /\ cr'.pc = "done" /\ ~cr.alertAppeared) =>
          /\ cr.currentUrl = "origin"
          /\ IF cr.pageUrl # cr.currentUrl
             THEN /\ cr'.outcome = "Available"
                  /\ cr'.bookingName = DetailText(cr.detail)
                  /\ probe'[1][1].pc = "sending"
                        => cr'.mailName = DetailText(cr.detail)
             ELSE /\ cr'.outcome = "Inconclusive"
                  /\ probe'[1][1].pc = "closing"
                  /\ lastInvoke' = lastInvoke
      ]_vars

C12_AvailableWithName ==
    /\ cr.outcome = "Available" /\ cr.dialogs = 0
    /\ cr.detail.text = <<" ", "R", " ">> /\ cr.bookingName = <<"R">>
    /\ probe[1][1].pc = "sending" /\ cr.mailName = <<"R">>

NotNotified == probe[1][1].url \notin DOMAIN lastInvoke

RetriesBounded ==
    /\ cr.searches <= maxReserveButtonAttempts
    /\ cr.nonMemberSearches <= maxNonMemberButtonAttempts
    /\ cr.pc = "findReserve"
          => (cr.searches = cr.attempt - 1 /\ cr.reloads = cr.searches
                /\ cr.settles = cr.searches)
    /\ cr.reserveButtonFound
          => cr.pc \notin {"findReserve", "reload", "reloadDelay", "content"}
    /\ (cr.searches = maxReserveButtonAttempts /\ ~cr.reserveButtonFound)
          => cr.outcome = "PageError"
    /\ cr.outcome = "PageError"
          => (/\ cr.searches = maxReserveButtonAttempts
              /\ ~cr.reserveButtonFound
              /\ cr.nonMemberSearches = 0 /\ ~cr.nonMemberButtonClicked
              /\ cr.pc \in {"content", "done"}
              /\ NotNotified)
    /\ cr.pc = "findNonMember" => cr.nonMemberSearches = cr.attempt - 1
    /\ cr.nonMemberButtonClicked
          => cr.pc \notin {"findNonMember", "nonMemberDelay"}
    /\ (cr.nonMemberSearches = maxNonMemberButtonAttempts
            /\ ~cr.nonMemberButtonClicked)
          => (cr.outcome = "Inconclusive" /\ cr.pc = "done" /\ NotNotified)

\* C13: the reserve button is searched at most 5 times, with a reload and a
\* delay before every search but the first, and not again once found; five
\* misses end the probe as PageError before the non-member step, the observe
\* step and the mail.  The non-member button is searched at most 5 times and
\* five misses end the probe as Inconclusive.  Every probe settles.
C13_BoundedRetries == []RetriesBounded /\ <>Settled(1, 1)

C13_GaveUpAfterFive ==
    /\ probe[1][1].pc = "fulfilled"
    /\ cr.outcome = "PageError"
    /\ cr.searches = 5 /\ cr.reloads = 4 /\ cr.settles = 4

\* C14: a cycle generates Len(gSearchList) * WeekLen tasks with pairwise
\* distinct (idx, date), ordered by target and then by ascending date from
\* today on, with url a function of (idx, date); an empty list gives no task
\* and no probe.
C14_TaskGeneration ==
    attempt > 0 =>
        LET n == Len(searchTasks)
        IN  /\ n = Len(gSearchList) * WeekLen
            /\ \A i, j \in 1..n :
                  i # j => <<searchTasks[i].idx, searchTasks[i].date>>
                              # <<searchTasks[j].idx, searchTasks[j].date>>
            /\ \A i \in 1..n :
                  /\ searchTasks[i].idx = gSearchList[((i - 1) \div WeekLen) + 1]
                  /\ searchTasks[i].date
                        = ((TickMs + SeoulOffsetMs) \div DayMs) + ((i - 1) % WeekLen)
                  /\ searchTasks[i].url
                        = TaskUrl(searchTasks[i].idx, searchTasks[i].date)
            /\ Len(gSearchList) = 0
                  => \A t \in TaskIds : probe[attempt][t].pc = "none"

BatchStarts(n) == {i \in 0..n : i % CONCURRENT_LIMIT = 0 /\ i < n}

\* C15: the task list is cut into ceil(n/K) consecutive chunks, all of size K
\* but possibly the last, every task is in exactly one chunk, and every task
\* has been probed when the cycle (whose browser was launched) has ended.
C15_ChunkPartition ==
    attempt > 0 =>
        LET n == Len(searchTasks)
        IN  /\ Cardinality(BatchStarts(n))
                  = (n + CONCURRENT_LIMIT - 1) \div CONCURRENT_LIMIT
            /\ \A i \in BatchStarts(n) :
                  LET size == Cardinality(Batch(searchTasks, i))
                  IN  /\ size >= 1 /\ size <= CONCURRENT_LIMIT
                      /\ i + CONCURRENT_LIMIT < n => size = CONCURRENT_LIMIT
            /\ \A t \in 1..n :
                  Cardinality({i \in BatchStarts(n) : t \in Batch(searchTasks, i)}) = 1
            /\ (driverPc = "loop" /\ browser[attempt] = "closed")
                  => \A t \in 1..n : probe[attempt][t].pc # "none"

\* The step in which probe <<a, t>> reads or writes the cache.
TouchesCache(a, t) ==
    \/ probe[a][t].pc = "probing" /\ probe'[a][t].pc # "probing"
          /\ probe'[a][t].outcome = "Available"
    \/ probe[a][t].pc = "sending" /\ probe'[a][t].pc = "closing"
          /\ probe'[a][t].outcome = "Available"

\* C16: a probe records its send in the step in which its canSendEmail
\* succeeded, and no other probe reads or writes the cache while a probe is
\* between its canSendEmail and its recordEmailSent.
C16_CheckAndRecordAtomic ==
    [][\A x \in AllProbes :
          /\ Invoked(x[1], x[2])
                => (/\ probe[x[1]][x[2]].url \in DOMAIN emailSentHistory'
                    /\ emailSentHistory'[probe[x[1]][x[2]].url] = now)
          /\ probe[x[1]][x[2]].pc = "sending"
                => \A y \in AllProbes \ {x} : ~TouchesCache(y[1], y[2])
      ]_vars

\* C17: every native dialog a page opens during a probe is dismissed; none
\* is left unanswered.
C17_DialogsDismissed == cr.dialog # "pending"

\* C18: the cache changes only in the step in which a sendEmail call returns
\* (by the record of that url) and in the step that starts a cycle (by the
\* cleanup, before any task of that cycle); every cycle start runs the cleanup.
C18_CacheFrame ==
    [][/\ emailSentHistory' # emailSentHistory =>
            \/ /\ attempt' = attempt + 1
               /\ \A t \in TaskIds : probe'[attempt'][t].pc = "none"
            \/ \E x \in AllProbes :
                  /\ probe[x[1]][x[2]].pc = "sending"
                  /\ probe'[x[1]][x[2]].pc = "closing"
                  /\ probe'[x[1]][x[2]].outcome = "Available"
                  /\ emailSentHistory' = recordEmailSent(emailSentHistory,
                                                         probe[x[1]][x[2]].url, now)
       /\ attempt' # attempt
            => emailSentHistory' = cleanupOldEmailHistory(emailSentHistory, now)
      ]_vars

C18_FailedSendLeftNoEntry ==
    \E x \in AllProbes :
        /\ probe[x[1]][x[2]].pc = "closing"
        /\ probe[x[1]][x[2]].outcome = "Exception"
        /\ probe[x[1]][x[2]].url \in DOMAIN lastInvoke
        /\ probe[x[1]][x[2]].url \notin DOMAIN emailSentHistory

\* C19: at most one session is open; a cycle that has ended has closed the
\* session it launched; a session is closed only when no probe of its cycle
\* is running, and every open page belongs to an open session.
C19_SessionScoping ==
    /\ Cardinality({a \in Attempts : browser[a] = "open"}) <= 1
    /\ (driverPc = "loop" /\ attempt > 0) => browser[attempt] \in {"closed", "failed"}
    /\ \A x \in AllProbes :
          /\ browser[x[1]] = "closed" => ~InFlight(x[1], x[2])
          /\ probe[x[1]][x[2]].page = "open" => browser[x[1]] = "open"

\* C20: at any clock value cleanup removes an entry exactly when canSendEmail
\* is already true for its key, canSendEmail answers the same for every key
\* before and after cleanup, and it is false for every entry cleanup leaves.
C20_CleanupInvisible ==
    \A u \in CacheKeys :
        /\ canSendEmail(emailSentHistory, u, now) <=> canSendEmail(CleanedNow, u, now)
        /\ u \in DOMAIN emailSentHistory
              => (u \notin DOMAIN CleanedNow <=> canSendEmail(emailSentHistory, u, now))
        /\ u \in DOMAIN CleanedNow => ~canSendEmail(CleanedNow, u, now)

C20_RemovedAtCooldownKeptBefore ==
    \E u, v \in CacheKeys :
        /\ u \in DOMAIN emailSentHistory /\ u \notin DOMAIN CleanedNow
        /\ Age(emailSentHistory, u) = EMAIL_COOLDOWN_MS
        /\ v \in DOMAIN CleanedNow /\ ~canSendEmail(emailSentHistory, v, now)

====
